---- MODULE Spec2Model ----
(***************************************************************************)
(* Model of src/handler/payload.rs: the request router process_payload     *)
(* and the query resolver ImplPayloadInterface::payload.                   *)
(*                                                                         *)
(* Every request is handled by its own task.  A task runs from one         *)
(* suspension point to the next; the actions below are those steps.        *)
(* The embedding service, the vector store and the file system are the     *)
(* environment: what they answer is chosen when they are first asked and   *)
(* is remembered, so an unchanged backing store answers the same question  *)
(* the same way.                                                           *)
(*                                                                         *)
(* Option<T> is a sequence of length at most one: <<>> is None, <<x>> is   *)
(* Some(x).  Scores are f32 values counted in quarters (2 is 0.5).         *)
(***************************************************************************)
EXTENDS Integers, Sequences, FiniteSets

\* ---------------------------------------------------------------- bounds
MaxScore == 3

\* Two tasks, so that every pair of steps of two requests interleaves.
Requests == {"r1", "r2"}
Scores == 0..MaxScore
Thresholds == 1..(MaxScore - 1)

\* ------------------------------------------------------- input alphabets
Methods == {"GET", "POST"}
Paths == {"/query", "/isalive", "/other"}
SizeHints == {<<>>, <<0>>, <<1024 * 64>>, <<1024 * 64 + 1>>}
Queries == {"how do I reset my password", "what is qdrant"}
BodyKinds == {"json", "bad_json", "bad_utf8", "io_error"}
Bodies == {[kind |-> "json", query |-> q] : q \in Queries}
          \cup {[kind |-> k, query |-> ""] : k \in BodyKinds \ {"json"}}
Vectors == {"v1", "v2"}
Files == {"a.md", "b.md"}
Contents == {"", "Reset steps..."}
PayloadValues == {[kind |-> "str", s |-> f] : f \in Files}
                 \cup {[kind |-> "int", s |-> "7"]}
Payloads == {{}} \cup {{<<"id", v>>} : v \in PayloadValues}
            \cup {{<<"title", [kind |-> "str", s |-> "notes"]>>}}

None == <<>>
Some(x) == <<x>>

\* ------------------------------------------------------ ResponseDetails
ResponseDetails(status, query, data, score) ==
    [status |-> status, query |-> query, data |-> data, score |-> score]

NoDetails == ResponseDetails("", None, "", "")

\* f32/f64 Display, as used by to_string(): the shortest decimal that
\* round-trips, without a trailing ".0" (0.0 prints as 0, 1.0 as 1).
Digits == <<"0", "1", "2", "3", "4", "5", "6", "7", "8", "9">>
Fraction == <<"", ".25", ".5", ".75">>
ToString(score) ==
    Digits[(score \div 4) + 1] \o Fraction[(score % 4) + 1]

NoMatchMsg == "I could not find any related info, please refine your prompt"
QdrantMsg == "qdrant connection error"
OllamaMsg == "ollama request error"

QdrantKO == ResponseDetails("KO", None, QdrantMsg, ToString(0))
OllamaKO == ResponseDetails("KO", None, OllamaMsg, ToString(0))
NoMatchKO(q) == ResponseDetails("KO", Some(q), NoMatchMsg, ToString(0))
\* Variant: the file is read but its contents are not put in the response.
MatchOKNoData(q, score, markdown_data) ==
    ResponseDetails("OK", Some(q), "", ToString(score))
MatchOK(q, score, markdown_data) ==
    ResponseDetails("OK", Some(q), markdown_data, ToString(score))
BodyTooBigKO == ResponseDetails("KO", None, "body too big", ToString(0))
IsAliveOK == ResponseDetails("OK", None, "service is up", ToString(0))
NotFoundKO ==
    ResponseDetails("KO", None,
                    "ensure you post to the /query endpoint with valid json",
                    ToString(0))

\* ----------------------------------------------------- resolver helpers
\* Variant: the payload test is skipped.
is_empty_unchecked(payload) == FALSE
is_empty(payload) == payload = {}
HasStrId(payload) ==
    \E kv \in payload : kv[1] = "id" /\ kv[2].kind = "str"
IdOf(payload) == (CHOOSE kv \in payload : kv[1] = "id")[2].s

\* Variants: a threshold with a margin, and a threshold that admits ties.
AboveThresholdByMargin(score, threshold) == score > threshold + 1
AtOrAboveThreshold(score, threshold) == score >= threshold
AboveThreshold(score, threshold) == score > threshold

\* Result<ResponseDetails, Box<dyn Error>>
OkResult(d) == [ok |-> TRUE, details |-> d]
ErrResult == [ok |-> FALSE, details |-> NoDetails]

\* ------------------------------------------------------- router helpers
\* Variant: the route is matched on the path alone.
IsQueryRouteAnyMethod(method, path) == path = "/query"
IsQueryRoute(method, path) == method = "POST" /\ path = "/query"
IsAliveRoute(method, path) == method = "GET" /\ path = "/isalive"

\* Variant: the limit itself is rejected.
TooBigInclusive(hint) == hint = None \/ hint[1] >= 1024 * 64

\* size_hint().upper().unwrap_or(u64::MAX) > 1024 * 64
TooBig(hint) == hint = None \/ hint[1] > 1024 * 64

\* Variant: the status test is inverted.
StatusCodeInverted(status) == IF status = "OK" THEN 500 ELSE 200
StatusCode(status) == IF status = "KO" THEN 500 ELSE 200

HttpResponse(code, d) == [kind |-> "response", code |-> code, body |-> d]
HttpNone == [kind |-> "none", code |-> 0, body |-> NoDetails]
HttpPanic == [kind |-> "panic", code |-> 0, body |-> NoDetails]
HttpError == [kind |-> "error", code |-> 0, body |-> NoDetails]

\* ---------------------------------------------------------------- state
VARIABLES
    config,      \* ApplicationConfig: qdrant_ok (the url builds), score_threshold
    embeddings,  \* embedding service: query -> Option<answer>
    index,       \* vector store: vector -> Option<answer>
    files,       \* file system: path -> Option<answer>
    pc,          \* per request: position of its task
    req,         \* per request: method, path and body size hint
    body,        \* per request: Option<body as collected>
    query,       \* per request: Option<query_json.query>
    res,         \* per request: Option<embedding>
    vecdb_res,   \* per request: Option<search match>
    result,      \* per request: Option<what payload() returned>
    http,        \* per request: how process_payload ended
    calls        \* per request: the external calls made, in order

vars == <<config, embeddings, index, files, pc, req, body, query, res,
          vecdb_res, result, http, calls>>

store == <<embeddings, index, files>>

NoReq == [method |-> "", path |-> "", hint |-> None]
Call(op, ok) == [op |-> op, ok |-> ok]

EmbedResults == {[ok |-> FALSE, vector |-> ""]}
                \cup {[ok |-> TRUE, vector |-> v] : v \in Vectors}
SearchResults == {[ok |-> FALSE, payload |-> {}, score |-> 0]}
                 \cup {[ok |-> TRUE, payload |-> p, score |-> s] :
                          p \in Payloads, s \in Scores}
FileResults == {[ok |-> FALSE, contents |-> ""]}
               \cup {[ok |-> TRUE, contents |-> c] : c \in Contents}

\* Variant: the match is kept in one place shared by all requests.
MatchOfShared(r) ==
    IF \E o \in Requests \ {r} : vecdb_res[o] # None
    THEN vecdb_res[CHOOSE o \in Requests \ {r} : vecdb_res[o] # None][1]
    ELSE vecdb_res[r][1]

\* The search match held by request r: the local vecdb_res of its own call.
MatchOf(r) == vecdb_res[r][1]

\* What the environment may answer: anything the first time, the same after.
Answers(memo, key, all) == IF memo[key] = None THEN all ELSE {memo[key][1]}

Init ==
    /\ config \in [qdrant_ok : BOOLEAN, score_threshold : Thresholds]
    /\ embeddings = [q \in Queries |-> None]
    /\ index = [v \in Vectors |-> None]
    /\ files = [f \in Files |-> None]
    /\ pc = [r \in Requests |-> "idle"]
    /\ req = [r \in Requests |-> NoReq]
    /\ body = [r \in Requests |-> None]
    /\ query = [r \in Requests |-> None]
    /\ res = [r \in Requests |-> None]
    /\ vecdb_res = [r \in Requests |-> None]
    /\ result = [r \in Requests |-> None]
    /\ http = [r \in Requests |-> HttpNone]
    /\ calls = [r \in Requests |-> <<>>]

\* -------------------------------------------------------------- actions

\* A request arrives and its task is spawned.
Receive(r) ==
    /\ pc[r] = "idle"
    /\ \E m \in Methods, p \in Paths, h \in SizeHints :
          req' = [req EXCEPT ![r] = [method |-> m, path |-> p, hint |-> h]]
    /\ pc' = [pc EXCEPT ![r] = "route"]
    /\ UNCHANGED <<config, store, body, query, res, vecdb_res, result, http,
                   calls>>

\* process_payload: the match on (method, path) and the body size check.
Route(r) ==
    /\ pc[r] = "route"
    /\ IF IsQueryRoute(req[r].method, req[r].path)
       THEN IF TooBig(req[r].hint)
            THEN /\ http' = [http EXCEPT ![r] = HttpResponse(413, BodyTooBigKO)]
                 /\ pc' = [pc EXCEPT ![r] = "done"]
            ELSE /\ pc' = [pc EXCEPT ![r] = "collect"]
                 /\ UNCHANGED http
       ELSE IF IsAliveRoute(req[r].method, req[r].path)
            THEN /\ http' = [http EXCEPT ![r] = HttpResponse(500, IsAliveOK)]
                 /\ pc' = [pc EXCEPT ![r] = "done"]
            ELSE /\ http' = [http EXCEPT ![r] = HttpResponse(404, NotFoundKO)]
                 /\ pc' = [pc EXCEPT ![r] = "done"]
    /\ UNCHANGED <<config, store, req, body, query, res, vecdb_res, result,
                   calls>>

\* process_payload: collect the body, decode it as UTF-8, parse the JSON.
Collect(r) ==
    /\ pc[r] = "collect"
    /\ \E b \in Bodies :
          /\ body' = [body EXCEPT ![r] = Some(b)]
          /\ calls' = [calls EXCEPT ![r] = Append(@, Call("collect", b.kind # "io_error"))]
          /\ IF b.kind = "json"
             THEN /\ query' = [query EXCEPT ![r] = Some(b.query)]
                  /\ pc' = [pc EXCEPT ![r] = "connect"]
                  /\ UNCHANGED http
             ELSE /\ http' = [http EXCEPT ![r] =
                                IF b.kind = "io_error" THEN HttpError ELSE HttpPanic]
                  /\ pc' = [pc EXCEPT ![r] = "done"]
                  /\ UNCHANGED query
    /\ UNCHANGED <<config, store, req, res, vecdb_res, result>>

\* Variant: a failed client construction is not returned on.
ConnectUnchecked(r) ==
    /\ pc[r] = "connect"
    /\ calls' = [calls EXCEPT ![r] = Append(@, Call("connect", config.qdrant_ok))]
    /\ pc' = [pc EXCEPT ![r] = "embed"]
    /\ UNCHANGED <<config, store, req, body, query, res, vecdb_res, result, http>>

\* payload: build the vector-store client.
Connect(r) ==
    /\ pc[r] = "connect"
    /\ calls' = [calls EXCEPT ![r] = Append(@, Call("connect", config.qdrant_ok))]
    /\ IF config.qdrant_ok
       THEN /\ pc' = [pc EXCEPT ![r] = "embed"]
            /\ UNCHANGED result
       ELSE /\ result' = [result EXCEPT ![r] = Some(OkResult(QdrantKO))]
            /\ pc' = [pc EXCEPT ![r] = "respond"]
    /\ UNCHANGED <<config, store, req, body, query, res, vecdb_res, http>>

\* payload: generate_embeddings(model, query).await
Embed(r) ==
    /\ pc[r] = "embed"
    /\ \E e \in Answers(embeddings, query[r][1], EmbedResults) :
          /\ embeddings' = [embeddings EXCEPT ![query[r][1]] = Some(e)]
          /\ calls' = [calls EXCEPT ![r] = Append(@, Call("embed", e.ok))]
          /\ IF e.ok
             THEN /\ res' = [res EXCEPT ![r] = Some(e.vector)]
                  /\ pc' = [pc EXCEPT ![r] = "search"]
                  /\ UNCHANGED result
             ELSE /\ result' = [result EXCEPT ![r] = Some(OkResult(OllamaKO))]
                  /\ pc' = [pc EXCEPT ![r] = "respond"]
                  /\ UNCHANGED res
    /\ UNCHANGED <<config, index, files, req, body, query, vecdb_res, http>>

\* payload: qclient.search(category, embedding).await?
Search(r) ==
    /\ pc[r] = "search"
    /\ \E s \in Answers(index, res[r][1], SearchResults) :
          /\ index' = [index EXCEPT ![res[r][1]] = Some(s)]
          /\ calls' = [calls EXCEPT ![r] = Append(@, Call("search", s.ok))]
          /\ IF s.ok
             THEN /\ vecdb_res' = [vecdb_res EXCEPT ![r] =
                                     Some([payload |-> s.payload, score |-> s.score])]
                  /\ pc' = [pc EXCEPT ![r] = "evaluate"]
                  /\ UNCHANGED result
             ELSE /\ result' = [result EXCEPT ![r] = Some(ErrResult)]
                  /\ pc' = [pc EXCEPT ![r] = "respond"]
                  /\ UNCHANGED vecdb_res
    /\ UNCHANGED <<config, embeddings, files, req, body, query, res, http>>

\* payload: the payload and threshold tests, and the lookup of payload["id"].
Evaluate(r) ==
    /\ pc[r] = "evaluate"
    /\ LET m == MatchOf(r) IN
       IF ~is_empty(m.payload)
       THEN IF AboveThreshold(m.score, config.score_threshold)
            THEN IF HasStrId(m.payload)
                 THEN /\ pc' = [pc EXCEPT ![r] = "read"]
                      /\ UNCHANGED <<result, http>>
                 ELSE /\ http' = [http EXCEPT ![r] = HttpPanic]
                      /\ pc' = [pc EXCEPT ![r] = "done"]
                      /\ UNCHANGED result
            ELSE /\ result' = [result EXCEPT ![r] = Some(OkResult(NoMatchKO(query[r][1])))]
                 /\ pc' = [pc EXCEPT ![r] = "respond"]
                 /\ UNCHANGED http
       ELSE /\ result' = [result EXCEPT ![r] = Some(OkResult(NoMatchKO(query[r][1])))]
            /\ pc' = [pc EXCEPT ![r] = "respond"]
            /\ UNCHANGED http
    /\ UNCHANGED <<config, store, req, body, query, res, vecdb_res, calls>>

\* payload: fs::read_to_string(v)? and the OK response.
ReadFile(r) ==
    /\ pc[r] = "read"
    /\ LET m == MatchOf(r)
           v == IdOf(m.payload)
       IN \E f \in Answers(files, v, FileResults) :
             /\ files' = [files EXCEPT ![v] = Some(f)]
             /\ calls' = [calls EXCEPT ![r] = Append(@, Call("read", f.ok))]
             /\ result' = [result EXCEPT ![r] =
                             IF f.ok
                             THEN Some(OkResult(MatchOK(query[r][1], m.score, f.contents)))
                             ELSE Some(ErrResult)]
    /\ pc' = [pc EXCEPT ![r] = "respond"]
    /\ UNCHANGED <<config, embeddings, index, req, body, query, res, vecdb_res,
                   http>>

\* process_payload: unwrap what the resolver returned, set the HTTP status.
Respond(r) ==
    /\ pc[r] = "respond"
    /\ http' = [http EXCEPT ![r] =
                  IF result[r][1].ok
                  THEN HttpResponse(StatusCode(result[r][1].details.status),
                                    result[r][1].details)
                  ELSE HttpPanic]
    /\ pc' = [pc EXCEPT ![r] = "done"]
    /\ UNCHANGED <<config, store, req, body, query, res, vecdb_res, result,
                   calls>>

Next ==
    \E r \in Requests :
       \/ Receive(r)
       \/ Route(r)
       \/ Collect(r)
       \/ Connect(r)
       \/ Embed(r)
       \/ Search(r)
       \/ Evaluate(r)
       \/ ReadFile(r)
       \/ Respond(r)

Spec == Init /\ [][Next]_vars

\* ----------------------------------------------------- claim vocabulary
Ended(r) == pc[r] = "done"
Received(r) == pc[r] # "idle"
OnQueryRoute(r) == req[r].method = "POST" /\ req[r].path = "/query"
Made(r, op) == \E i \in 1..Len(calls[r]) : calls[r][i].op = op
Failed(r, op) ==
    \E i \in 1..Len(calls[r]) : calls[r][i].op = op /\ ~calls[r][i].ok
HasMatch(r) == vecdb_res[r] # None
Returned(r) == result[r] # None /\ result[r][1].ok
Responded(r) == http[r].kind = "response"
ReadableId(payload) ==
    /\ \E kv \in payload : kv[1] = "id" /\ kv[2].kind = "str"
    /\ LET v == (CHOOSE kv \in payload : kv[1] = "id")[2].s
       IN files[v] # None /\ files[v][1].ok
ContentsAt(payload) ==
    files[(CHOOSE kv \in payload : kv[1] = "id")[2].s][1].contents

\* C1: whenever the client construction, the embedding call or the search
\* call of a POST /query request fails, the request still ends with a
\* response whose body has status KO and a diagnostic in data that is not
\* the fixed no-match message; it never ends abnormally.
C1_ConnectivityFailuresAnsweredKO ==
    \A r \in Requests :
       (Ended(r) /\ (Failed(r, "connect") \/ Failed(r, "embed") \/ Failed(r, "search")))
          => /\ Responded(r)
             /\ http[r].body.status = "KO"
             /\ http[r].body.data \notin {"", NoMatchMsg}

\* C2 (as stated): a resolver result with status OK carries non-empty data
\* equal to the contents of the file at payload["id"], and a request that
\* ends in a KO response has read no file.
C2_OkDataNonEmptyFileContents ==
    \A r \in Requests :
       /\ (Returned(r) /\ result[r][1].details.status = "OK")
             => /\ HasMatch(r)
                /\ result[r][1].details.data # ""
                /\ result[r][1].details.data = ContentsAt(vecdb_res[r][1].payload)
       /\ (Responded(r) /\ http[r].body.status = "KO") => ~Made(r, "read")

\* C2 (amended): a resolver result with status OK carries data equal to the
\* full contents of the file at payload["id"], which may be empty, and a
\* request that ends in a KO response has read no file.
C2_OkDataIsFileContents ==
    \A r \in Requests :
       /\ (Returned(r) /\ result[r][1].details.status = "OK")
             => /\ HasMatch(r)
                /\ Made(r, "read")
                /\ result[r][1].details.data = ContentsAt(vecdb_res[r][1].payload)
       /\ (Responded(r) /\ http[r].body.status = "KO") => ~Made(r, "read")

C2_Witness ==
    \E r \in Requests :
       /\ Returned(r) /\ result[r][1].details.status = "OK"
       /\ result[r][1].details.data = ""
       /\ \E o \in Requests : Responded(o) /\ http[o].body.status = "KO"
                              /\ Made(o, "search")

\* C3 (as stated): every request that got a match with a non-empty payload
\* and a score strictly above the threshold is answered by the resolver
\* with OK, the match's score as a string, the original query and the
\* contents of the file at the matched path.
C3_AboveThresholdAlwaysOK ==
    \A r \in Requests :
       (Ended(r) /\ HasMatch(r)
          /\ vecdb_res[r][1].payload # {}
          /\ vecdb_res[r][1].score > config.score_threshold)
          => /\ Returned(r)
             /\ result[r][1].details.status = "OK"
             /\ result[r][1].details.score = ToString(vecdb_res[r][1].score)
             /\ result[r][1].details.query = Some(body[r][1].query)
             /\ result[r][1].details.data = ContentsAt(vecdb_res[r][1].payload)

\* C3 (amended): every request that got a match with a score strictly above
\* the threshold and a payload whose "id" is a string naming a readable
\* file is answered by the resolver with OK, the match's score as a string,
\* the original query and the contents of that file.
C3_AboveThresholdReadableOK ==
    \A r \in Requests :
       (Ended(r) /\ HasMatch(r)
          /\ vecdb_res[r][1].payload # {}
          /\ vecdb_res[r][1].score > config.score_threshold
          /\ ReadableId(vecdb_res[r][1].payload))
          => /\ Returned(r)
             /\ result[r][1].details.status = "OK"
             /\ result[r][1].details.score = ToString(vecdb_res[r][1].score)
             /\ result[r][1].details.query = Some(body[r][1].query)
             /\ result[r][1].details.data = ContentsAt(vecdb_res[r][1].payload)

C3_Witness ==
    \E r \in Requests :
       /\ Ended(r) /\ HasMatch(r)
       /\ vecdb_res[r][1].score = config.score_threshold + 1
       /\ ReadableId(vecdb_res[r][1].payload)
       /\ result[r][1].details.data = "Reset steps..."

LowMatch(r) ==
    /\ HasMatch(r)
    /\ vecdb_res[r][1].payload # {}
    /\ vecdb_res[r][1].score <= config.score_threshold
EmptyMatch(r) == HasMatch(r) /\ vecdb_res[r][1].payload = {}

C6_HttpStatusFollowsBodyStatus ==
    \A r \in Requests :
       (Ended(r) /\ Returned(r))
          => /\ Responded(r)
             /\ http[r].body = result[r][1].details
             /\ http[r].body.status \in {"OK", "KO"}
             /\ (http[r].code = 200) <=> (http[r].body.status = "OK")
             /\ (http[r].code = 500) <=> (http[r].body.status = "KO")

C6_Witness ==
    \E r \in Requests, o \in Requests :
       /\ Ended(r) /\ Returned(r) /\ http[r].code = 200
       /\ Ended(o) /\ Returned(o) /\ http[o].code = 500

\* C7: a POST /query request whose size hint is 65537 or more is answered
\* 413 with a KO body, with no body read and no resolver call; one whose
\* size hint is 65536 or less is not rejected: its next step is the body
\* collection, and a body that parses goes on to the resolver.
C7_BodySizeBoundary ==
    \A r \in Requests :
       (OnQueryRoute(r) /\ pc[r] \notin {"idle", "route"} /\ req[r].hint # None)
          => IF req[r].hint[1] >= 65537
             THEN /\ Ended(r)
                  /\ http[r].kind = "response" /\ http[r].code = 413
                  /\ http[r].body.status = "KO"
                  /\ calls[r] = <<>> /\ body[r] = None /\ result[r] = None
             ELSE /\ req[r].hint[1] <= 65536
                  /\ http[r].code # 413
                  /\ pc[r] = "collect" \/ calls[r][1].op = "collect"
                  /\ (body[r] # None /\ body[r][1].kind = "json")
                        => (pc[r] = "connect" \/ Made(r, "connect"))

C7_Witness ==
    \E r \in Requests, o \in Requests :
       /\ OnQueryRoute(r) /\ req[r].hint = <<65537>> /\ http[r].code = 413
       /\ OnQueryRoute(o) /\ req[o].hint = <<65536>> /\ Made(o, "connect")

\* C8: a request that is not POST /query makes no resolver or adapter call
\* and its response is fixed by the route: GET /isalive gets status OK and
\* data "service is up" under HTTP 500, anything else gets HTTP 404 with a
\* KO body that says to post to /query.
C8_OtherRoutesFixed ==
    \A r \in Requests :
       (Received(r) /\ ~OnQueryRoute(r))
          => /\ calls[r] = <<>> /\ result[r] = None
             /\ pc[r] \in {"route", "done"}
             /\ Ended(r) =>
                  IF req[r].method = "GET" /\ req[r].path = "/isalive"
                  THEN /\ Responded(r) /\ http[r].code = 500
                       /\ http[r].body.status = "OK"
                       /\ http[r].body.data = "service is up"
                  ELSE /\ Responded(r) /\ http[r].code = 404
                       /\ http[r].body.status = "KO"
                       /\ http[r].body.data =
                             "ensure you post to the /query endpoint with valid json"

C8_Witness ==
    \E r \in Requests, o \in Requests :
       /\ Ended(r) /\ req[r].method = "GET" /\ req[r].path = "/isalive"
       /\ Ended(o) /\ req[o].method = "GET" /\ req[o].path = "/query"

\* The outcome of a request handled alone against the backing store: the
\* router and the resolver run from start to end without any other request.
ResolvedAlone(q) ==
    IF ~config.qdrant_ok
    THEN HttpResponse(500, ResponseDetails("KO", None, QdrantMsg, "0"))
    ELSE LET e == embeddings[q][1] IN
         IF ~e.ok
         THEN HttpResponse(500, ResponseDetails("KO", None, OllamaMsg, "0"))
         ELSE LET s == index[e.vector][1] IN
              IF ~s.ok THEN HttpPanic
              ELSE IF s.payload = {} \/ ~(s.score > config.score_threshold)
                   THEN HttpResponse(500, ResponseDetails("KO", Some(q), NoMatchMsg, "0"))
                   ELSE IF ~HasStrId(s.payload) THEN HttpPanic
                        ELSE LET f == files[IdOf(s.payload)][1] IN
                             IF ~f.ok THEN HttpPanic
                             ELSE HttpResponse(200,
                                     ResponseDetails("OK", Some(q), f.contents,
                                                     ToString(s.score)))

HandledAlone(rq, b) ==
    IF rq.method = "POST" /\ rq.path = "/query"
    THEN IF rq.hint = None \/ rq.hint[1] > 65536
         THEN HttpResponse(413, ResponseDetails("KO", None, "body too big", "0"))
         ELSE IF b[1].kind = "io_error" THEN HttpError
              ELSE IF b[1].kind # "json" THEN HttpPanic
                   ELSE ResolvedAlone(b[1].query)
    ELSE IF rq.method = "GET" /\ rq.path = "/isalive"
         THEN HttpResponse(500, ResponseDetails("OK", None, "service is up", "0"))
         ELSE HttpResponse(404,
                 ResponseDetails("KO", None,
                    "ensure you post to the /query endpoint with valid json", "0"))

\* C9: under every interleaving, a request ends as it would have ended
\* handled alone against the same backing store, and two requests with the
\* same method, path, size hint and body end identically.
C9_RequestsIndependent ==
    /\ \A r \in Requests : Ended(r) => http[r] = HandledAlone(req[r], body[r])
    /\ \A r \in Requests, o \in Requests :
          (Ended(r) /\ Ended(o) /\ req[r] = req[o] /\ body[r] = body[o])
             => http[r] = http[o]

C9_Witness ==
    \E r \in Requests, o \in Requests :
       /\ r # o /\ Ended(r) /\ Ended(o)
       /\ Responded(r) /\ http[r].code = 200 /\ http[o].code = 500
       /\ HasMatch(r) /\ HasMatch(o)
       /\ vecdb_res[r] # vecdb_res[o]

\* C10: the external calls of a request are an initial part of Connect,
\* Embed, Search, Read after the body collection, each made at most once;
\* a failed call is the last one; a file is read only after a search that
\* returned a non-empty payload with a score above the threshold.
ResolverOrder == <<"collect", "connect", "embed", "search", "read">>
C10_LinearNoRetry ==
    \A r \in Requests :
       /\ Len(calls[r]) <= Len(ResolverOrder)
       /\ \A i \in 1..Len(calls[r]) :
             /\ calls[r][i].op = ResolverOrder[i]
             /\ i < Len(calls[r]) => calls[r][i].ok
       /\ Made(r, "read")
             => /\ HasMatch(r)
                /\ vecdb_res[r][1].payload # {}
                /\ vecdb_res[r][1].score > config.score_threshold
       /\ (Failed(r, "connect") \/ Failed(r, "embed") \/ Failed(r, "search")
           \/ Failed(r, "read"))
             => pc[r] \in {"respond", "done"}

C10_Witness ==
    \E r \in Requests, o \in Requests :
       /\ Ended(r) /\ Len(calls[r]) = 5
       /\ Ended(o) /\ Failed(o, "embed")
====
